---- MODULE Spec2Model ----
(***************************************************************************)
(* Loaded chunks and the chunk index of valence_server.                    *)
(*                                                                         *)
(*   crates/valence_server/src/layer_old/chunk/loaded.rs   LoadedChunk     *)
(*   crates/valence_server/src/dimension_layer/index.rs    ChunkIndex      *)
(*                                                                         *)
(* A method `fn m(&mut self, a) -> R` is an operator m(self, a) whose      *)
(* value is the record [self |-> the receiver afterwards, ret |-> R]; the  *)
(* actions below apply these operators to the program state.               *)
(*                                                                         *)
(* Chunk storage (Chunk, Section, the paletted containers) lives in files  *)
(* that are not part of the sources at hand; it is modelled from its       *)
(* description, over a window of cells: the block cell (3, 4 + 16k, 5) and *)
(* the biome cell (1, 2 + 4k, 3) of every section k.                       *)
(***************************************************************************)
EXTENDS Integers, Sequences, FiniteSets, TLC

\* ------------------------------------------------------------------------
\* Bounds of the model
\* ------------------------------------------------------------------------
\* Heights of an index run over 16, .., 16 * MaxSections; the chunk data
\* handed to it has 0 to MaxSections + 1 sections.
MaxSections == 1
\* Threads that call write_init_packets concurrently.
NumReaders == 2
\* inc_viewer_count is not taken above this count.
MaxViewers == 1

\* ------------------------------------------------------------------------
\* Values
\* ------------------------------------------------------------------------
SECTION_BLOCK_COUNT == 16 * 16 * 16

None == <<>>
Some(v) == <<v>>

\* BlockState: air, a plain block, a block with a block entity kind.
BlockStates == {"AIR", "STONE", "CHEST"}
to_raw(b) == CASE b = "AIR" -> 0 [] b = "STONE" -> 1 [] b = "CHEST" -> 2
max_raw == CHOOSE m \in {to_raw(b) : b \in BlockStates} : \A b \in BlockStates : to_raw(b) <= m
block_entity_kind(b) == IF b = "CHEST" THEN Some("Chest") ELSE None

\* BiomeId: BiomeId::DEFAULT and BiomeId::from_index(4).
from_index(i) == i
to_index(b) == b
BiomeDefault == from_index(0)
Biomes == {BiomeDefault, from_index(4)}

\* Block entity payloads (Compound).
Compounds == {"nbt_a", "nbt_b"}

\* Cells of the window, as indexes into a section's containers.
BlockCells == {3 + 5 * 16 + 4 * 256}
BiomeCells == {1 + 3 * 4 + 2 * 16}

\* Block and biome coordinates of the window inside a chunk of `height`.
BlockCoords(height) ==
    {<<3, y, 5>> : y \in {yy \in 0..(height - 1) : yy % 16 = 4}}
BiomeCoords(height) ==
    {<<1, y, 3>> : y \in {yy \in 0..((height \div 4) - 1) : yy % 4 = 2}}
SectionYs(height) == 0..((height \div 16) - 1)

\* u32 as two 16-bit halves <<hi, lo>>, so that wrap-around is exact.
U32(n) == <<n \div 65536, n % 65536>>
U32Max == <<65535, 65535>>
wrapping_add1(v) ==
    IF v[2] < 65535 THEN <<v[1], v[2] + 1>>
    ELSE <<(v[1] + 1) % 65536, 0>>
wrapping_sub1(v) ==
    IF v[2] > 0 THEN <<v[1], v[2] - 1>>
    ELSE <<(v[1] + 65535) % 65536, 65535>>

\* `as i8` and `as i16` of a small non-negative or negative integer.
AsI8(n) == LET m == n % 256 IN IF m >= 128 THEN m - 256 ELSE m
AsI16(n) == LET m == n % 65536 IN IF m >= 32768 THEN m - 65536 ELSE m

RECURSIVE bit_width(_)
bit_width(n) == IF n = 0 THEN 0 ELSE 1 + bit_width(n \div 2)

\* The elements of a finite set of integers in ascending order.
RECURSIVE Ascending(_)
Ascending(S) ==
    IF S = {} THEN <<>>
    ELSE LET m == CHOOSE a \in S : \A b \in S : a <= b
         IN <<m>> \o Ascending(S \ {m})

\* ------------------------------------------------------------------------
\* Chunk storage
\* ------------------------------------------------------------------------
SectionDefault ==
    [block_states |-> [i \in BlockCells |-> "AIR"],
     biomes |-> [i \in BiomeCells |-> BiomeDefault]]

Chunk_with_height(height) ==
    [sections |-> [i \in 1..(height \div 16) |-> SectionDefault],
     block_entities |-> <<>>]

Chunk_new == Chunk_with_height(0)

Chunk_height(c) == Len(c.sections) * 16

\* Resize: overlapping sections are kept, new ones are default, and block
\* entities above the new height go with their sections.
Chunk_set_height(c, height) ==
    LET new_count == height \div 16
        old_count == Len(c.sections)
        cutoff == SECTION_BLOCK_COUNT * new_count
    IN [sections |-> [i \in 1..new_count |->
                        IF i <= old_count THEN c.sections[i] ELSE SectionDefault],
        block_entities |-> [idx \in {i \in DOMAIN c.block_entities : i < cutoff} |->
                              c.block_entities[idx]]]

Chunk_block_state(c, x, y, z) ==
    c.sections[(y \div 16) + 1].block_states[x + z * 16 + (y % 16) * 256]

Chunk_set_block_state(c, x, y, z, block) ==
    [self |-> [c EXCEPT !.sections[(y \div 16) + 1].block_states[x + z * 16 + (y % 16) * 256] = block],
     ret |-> Chunk_block_state(c, x, y, z)]

Chunk_fill_block_state_section(c, sect_y, block) ==
    [c EXCEPT !.sections[sect_y + 1].block_states = [i \in BlockCells |-> block]]

Chunk_biome(c, x, y, z) ==
    c.sections[(y \div 4) + 1].biomes[x + z * 4 + (y % 4) * 16]

Chunk_set_biome(c, x, y, z, biome) ==
    [self |-> [c EXCEPT !.sections[(y \div 4) + 1].biomes[x + z * 4 + (y % 4) * 16] = biome],
     ret |-> Chunk_biome(c, x, y, z)]

Chunk_fill_biome_section(c, sect_y, biome) ==
    [c EXCEPT !.sections[sect_y + 1].biomes = [i \in BiomeCells |-> biome]]

Chunk_block_entity(c, x, y, z) ==
    LET idx == x + z * 16 + y * 16 * 16
    IN IF idx \in DOMAIN c.block_entities THEN Some(c.block_entities[idx]) ELSE None

Chunk_set_block_entity(c, x, y, z, block_entity) ==
    LET idx == x + z * 16 + y * 16 * 16
        old == c.block_entities
    IN [self |-> [c EXCEPT !.block_entities =
                    IF block_entity = None
                    THEN [i \in DOMAIN old \ {idx} |-> old[i]]
                    ELSE [i \in DOMAIN old \cup {idx} |->
                            IF i = idx THEN block_entity[1] ELSE old[i]]],
        ret |-> Chunk_block_entity(c, x, y, z)]

Chunk_clear_block_entities(c) == [c EXCEPT !.block_entities = <<>>]

count_non_air_blocks(sect) ==
    Cardinality({i \in BlockCells : sect.block_states[i] # "AIR"})

\* The cells of a container in cell order, each as the bits `to_bits` gives
\* it (to_bits is a function: the closure encode_mc_format is called with).
Entries(container, to_bits) ==
    [k \in 1..Cardinality(DOMAIN container) |->
        to_bits[container[Ascending(DOMAIN container)[k]]]]

\* PalettedContainer::encode_mc_format: the bits-per-entry parameters and
\* the bits of every cell.
encode_mc_format(container, to_bits, min_indirect_bits, max_indirect_bits, direct_bits) ==
    [min_indirect_bits |-> min_indirect_bits,
     max_indirect_bits |-> max_indirect_bits,
     direct_bits |-> direct_bits,
     entries |-> Entries(container, to_bits)]

\* ------------------------------------------------------------------------
\* The packet writer
\* ------------------------------------------------------------------------
\* Bytes are a sequence of frames; PacketWriter::write_packet appends the
\* frame of one packet, encoded under the writer's compression threshold.
PacketWriter_write_packet(buf, threshold, pkt) ==
    Append(buf, [threshold |-> threshold, packet |-> pkt])

write_packet_bytes(writer, bytes) == writer \o bytes

\* The (position, ChunkLayerInfo) pairs write_init_packets is called with.
WriteArgs ==
    {[pos |-> <<3, 4>>,
      info |-> [height |-> 512, min_y |-> -16, biome_registry_len |-> 200, threshold |-> -1]],
     [pos |-> <<0, 0>>,
      info |-> [height |-> 384, min_y |-> -64, biome_registry_len |-> 5, threshold |-> 256]]}

\* ------------------------------------------------------------------------
\* LoadedChunk
\* ------------------------------------------------------------------------
\* `mutex` is the thread that holds the lock of cached_init_packets, 0 if
\* it is unlocked.
LoadedChunk_new(height) ==
    [chunk |-> Chunk_with_height(height),
     viewer_count |-> U32(0),
     cached_init_packets |-> <<>>,
     mutex |-> 0]

height(self) == Chunk_height(self.chunk)

\* (mutation of replace: the chunk is stored as given, without set_height)
replace_without_resize(self, chunk) ==
    [self |-> [self EXCEPT !.cached_init_packets = <<>>, !.chunk = chunk],
     ret |-> self.chunk]

\* (mutation of replace: the arguments of mem::replace are taken the other
\* way round, so the new data is handed back and the old data kept)
replace_returns_new(self, chunk) ==
    [self |-> [self EXCEPT !.cached_init_packets = <<>>],
     ret |-> Chunk_set_height(chunk, Chunk_height(self.chunk))]

\* (mutation of replace: the cache is cleared only when the data changes, as
\* set_block_state does it)
replace_if_changed(self, chunk) ==
    LET resized == Chunk_set_height(chunk, Chunk_height(self.chunk))
    IN [self |-> [self EXCEPT !.cached_init_packets =
                                  IF resized # self.chunk THEN <<>> ELSE @,
                              !.chunk = resized],
        ret |-> self.chunk]

replace(self, chunk) ==
    [self |-> [self EXCEPT !.cached_init_packets = <<>>,
                           !.chunk = Chunk_set_height(chunk, height(self))],
     ret |-> self.chunk]

into_chunk(self) == self.chunk

to_chunk(self) == self.chunk

viewer_count(self) == self.viewer_count

\* (mutation of inc_viewer_count: a store of 1 in place of the fetch_add, as
\* a load of 0 followed by a store makes it when another update comes between)
inc_viewer_count_store(self) ==
    [self EXCEPT !.viewer_count = U32(1)]

inc_viewer_count(self) ==
    [self EXCEPT !.viewer_count = wrapping_add1(self.viewer_count)]

\* (mutation of dec_viewer_count: a viewer leaving is taken for a change
\* that clients have to see, and the cache is cleared)
dec_viewer_count_invalidates(self, debug_assertions) ==
    [self |-> [self EXCEPT !.viewer_count = wrapping_sub1(self.viewer_count),
                           !.cached_init_packets = <<>>],
     panic |-> debug_assertions /\ self.viewer_count = U32(0)]

\* (mutation of dec_viewer_count: the count is tested before the
\* subtraction, which is not made when the assertion fails)
dec_viewer_count_tests_first(self, debug_assertions) ==
    IF debug_assertions /\ self.viewer_count = U32(0)
    THEN [self |-> self, panic |-> TRUE]
    ELSE [self |-> [self EXCEPT !.viewer_count = wrapping_sub1(self.viewer_count)],
          panic |-> FALSE]

\* fetch_sub, then debug_assert_ne!(old, 0).
dec_viewer_count(self, debug_assertions) ==
    [self |-> [self EXCEPT !.viewer_count = wrapping_sub1(self.viewer_count)],
     panic |-> debug_assertions /\ self.viewer_count = U32(0)]

\* The body of the `if init_packets.is_empty()` block.
blocks_and_biomes(self, info) ==
    [k \in 1..Len(self.chunk.sections) |->
        LET sect == self.chunk.sections[k]
        IN [non_air |-> count_non_air_blocks(sect),
            block_states |-> encode_mc_format(sect.block_states, [b \in BlockStates |-> to_raw(b)], 4, 8,
                                              bit_width(max_raw)),
            biomes |-> encode_mc_format(sect.biomes, [b \in Biomes |-> to_index(b)], 0, 3,
                                        bit_width(info.biome_registry_len - 1))]]

\* (mutation of block_entity_record: `map` in place of `filter_map`, with a
\* default kind for an entry whose block state has none)
block_entity_record_unfiltered(self, info, idx) ==
    LET x == idx % 16
        z == (idx \div 16) % 16
        y == (idx \div 16) \div 16
        kind == block_entity_kind(
                    self.chunk.sections[(y \div 16) + 1].block_states[idx % SECTION_BLOCK_COUNT])
    IN Some([packed_xz |-> AsI8(x * 16 + z),
             y |-> AsI16(y) + AsI16(info.min_y),
             kind |-> IF kind = None THEN "Chest" ELSE kind[1],
             data |-> self.chunk.block_entities[idx]])

block_entity_record(self, info, idx) ==
    LET x == idx % 16
        z == (idx \div 16) % 16
        y == (idx \div 16) \div 16
        kind == block_entity_kind(
                    self.chunk.sections[(y \div 16) + 1].block_states[idx % SECTION_BLOCK_COUNT])
    IN IF kind = None THEN None
       ELSE Some([packed_xz |-> AsI8(x * 16 + z),
                  y |-> AsI16(y) + AsI16(info.min_y),
                  kind |-> kind[1],
                  data |-> self.chunk.block_entities[idx]])

RECURSIVE filter_map(_, _, _)
filter_map(self, info, idxs) ==
    IF idxs = <<>> THEN <<>>
    ELSE block_entity_record(self, info, Head(idxs)) \o filter_map(self, info, Tail(idxs))

block_entities(self, info) ==
    filter_map(self, info, Ascending(DOMAIN self.chunk.block_entities))

ChunkDataS2c(self, pos, info) ==
    [pos |-> pos,
     heightmaps |-> <<>>,
     blocks_and_biomes |-> blocks_and_biomes(self, info),
     block_entities |-> block_entities(self, info),
     sky_light_mask |-> <<>>,
     block_light_mask |-> <<>>,
     empty_sky_light_mask |-> <<>>,
     empty_block_light_mask |-> <<>>,
     sky_light_arrays |-> <<>>,
     block_light_arrays |-> <<>>]

\* (mutation of fill_init_packets: the emptiness test is inverted)
fill_init_packets_inverted(self, pos, info) ==
    IF self.cached_init_packets # <<>>
    THEN [self |-> [self EXCEPT !.cached_init_packets =
                      PacketWriter_write_packet(self.cached_init_packets, info.threshold,
                                                ChunkDataS2c(self, pos, info))],
          assembled |-> TRUE]
    ELSE [self |-> self, assembled |-> FALSE]

\* (mutation of fill_init_packets: the packet is assembled on every call,
\* for the arguments of that call)
fill_init_packets_every_call(self, pos, info) ==
    [self |-> [self EXCEPT !.cached_init_packets =
                 PacketWriter_write_packet(<<>>, info.threshold, ChunkDataS2c(self, pos, info))],
     assembled |-> TRUE]

\* write_init_packets between taking the lock and writing to the writer:
\* [self |-> the chunk afterwards, assembled |-> whether the packet was built].
fill_init_packets(self, pos, info) ==
    IF self.cached_init_packets = <<>>
    THEN [self |-> [self EXCEPT !.cached_init_packets =
                      PacketWriter_write_packet(self.cached_init_packets, info.threshold,
                                                ChunkDataS2c(self, pos, info))],
          assembled |-> TRUE]
    ELSE [self |-> self, assembled |-> FALSE]

block_state(self, x, y, z) == Chunk_block_state(self.chunk, x, y, z)

\* (mutation of set_block_state: compares with the state read back after the write)
set_block_state_reads_back(self, x, y, z, block) ==
    LET r == Chunk_set_block_state(self.chunk, x, y, z, block)
        old_block == Chunk_block_state(r.self, x, y, z)
    IN [self |-> [self EXCEPT !.chunk = r.self,
                              !.cached_init_packets =
                                  IF block # old_block THEN <<>> ELSE @],
        ret |-> r.ret]

set_block_state(self, x, y, z, block) ==
    LET r == Chunk_set_block_state(self.chunk, x, y, z, block)
        old_block == r.ret
    IN [self |-> [self EXCEPT !.chunk = r.self,
                              !.cached_init_packets =
                                  IF block # old_block THEN <<>> ELSE @],
        ret |-> old_block]

fill_block_state_section(self, sect_y, block) ==
    [self EXCEPT !.chunk = Chunk_fill_block_state_section(self.chunk, sect_y, block),
                 !.cached_init_packets = <<>>]

block_entity(self, x, y, z) == Chunk_block_entity(self.chunk, x, y, z)

\* (mutation of block_entity_mut: the cache is cleared without the test of
\* `res`, as set_block_entity clears it)
block_entity_mut_always_clears(self, x, y, z) ==
    LET res == Chunk_block_entity(self.chunk, x, y, z)
    IN [self |-> [self EXCEPT !.cached_init_packets = <<>>],
        ret |-> IF res # None THEN Some(x + z * 16 + y * 16 * 16) ELSE None]

\* ret is None, or Some(the index of the payload the caller may now write).
block_entity_mut(self, x, y, z) ==
    LET res == Chunk_block_entity(self.chunk, x, y, z)
    IN [self |-> [self EXCEPT !.cached_init_packets = IF res # None THEN <<>> ELSE @],
        ret |-> IF res # None THEN Some(x + z * 16 + y * 16 * 16) ELSE None]

set_block_entity(self, x, y, z, payload) ==
    LET r == Chunk_set_block_entity(self.chunk, x, y, z, payload)
    IN [self |-> [self EXCEPT !.cached_init_packets = <<>>, !.chunk = r.self],
        ret |-> r.ret]

\* (mutation of clear_block_entities: the cache is left alone)
clear_block_entities_keeps_cache(self) ==
    IF DOMAIN self.chunk.block_entities = {} THEN self
    ELSE [self EXCEPT !.chunk = Chunk_clear_block_entities(self.chunk)]

clear_block_entities(self) ==
    IF DOMAIN self.chunk.block_entities = {} THEN self
    ELSE [self EXCEPT !.chunk = Chunk_clear_block_entities(self.chunk),
                      !.cached_init_packets = <<>>]

biome(self, x, y, z) == Chunk_biome(self.chunk, x, y, z)

\* (mutation of set_biome: invalidates without comparing)
set_biome_unconditional(self, x, y, z, biome_id) ==
    LET r == Chunk_set_biome(self.chunk, x, y, z, biome_id)
    IN [self |-> [self EXCEPT !.chunk = r.self, !.cached_init_packets = <<>>],
        ret |-> r.ret]

set_biome(self, x, y, z, biome_id) ==
    LET r == Chunk_set_biome(self.chunk, x, y, z, biome_id)
        old_biome == r.ret
    IN [self |-> [self EXCEPT !.chunk = r.self,
                              !.cached_init_packets =
                                  IF biome_id # old_biome THEN <<>> ELSE @],
        ret |-> old_biome]

\* (mutation of fill_biome_section: the cache is cleared only when the fill
\* changes the section)
fill_biome_section_if_changed(self, sect_y, biome_id) ==
    LET filled == Chunk_fill_biome_section(self.chunk, sect_y, biome_id)
    IN [self EXCEPT !.chunk = filled,
                    !.cached_init_packets = IF filled # self.chunk THEN <<>> ELSE @]

fill_biome_section(self, sect_y, biome_id) ==
    [self EXCEPT !.chunk = Chunk_fill_biome_section(self.chunk, sect_y, biome_id),
                 !.cached_init_packets = <<>>]

\* Capacity is not part of the value of a Vec.
shrink_to_fit(self) == self

\* ------------------------------------------------------------------------
\* ChunkIndex and its entries
\* ------------------------------------------------------------------------
ChunkIndex_new(h) == [map |-> [pos \in {} |-> LoadedChunk_new(h)], height |-> h]

get(self, pos) == IF pos \in DOMAIN self.map THEN Some(self.map[pos]) ELSE None

get_mut(self, pos) == IF pos \in DOMAIN self.map THEN Some(pos) ELSE None

entry(self, pos) ==
    IF pos \in DOMAIN self.map
    THEN [tag |-> "Occupied", key |-> pos]
    ELSE [tag |-> "Vacant", key |-> pos, height |-> self.height]

\* (mutation of OccupiedEntry::insert: the loaded chunk is made anew, as
\* VacantEntry::insert makes it)
OccupiedEntry_insert_fresh(self, oe, chunk) ==
    LET r == replace(LoadedChunk_new(height(self.map[oe.key])), chunk)
    IN [self |-> [self EXCEPT !.map[oe.key] = r.self], ret |-> self.map[oe.key].chunk]

OccupiedEntry_insert(self, oe, chunk) ==
    LET r == replace(self.map[oe.key], chunk)
    IN [self |-> [self EXCEPT !.map[oe.key] = r.self], ret |-> r.ret]

\* (mutation of OccupiedEntry::remove_entry: the data is cloned out and the
\* entry stays)
OccupiedEntry_remove_entry_keeps(self, oe) ==
    [self |-> self, ret |-> <<oe.key, to_chunk(self.map[oe.key])>>]

OccupiedEntry_remove_entry(self, oe) ==
    [self |-> [self EXCEPT !.map = [pos \in DOMAIN self.map \ {oe.key} |-> self.map[pos]]],
     ret |-> <<oe.key, into_chunk(self.map[oe.key])>>]

OccupiedEntry_remove(self, oe) ==
    LET r == OccupiedEntry_remove_entry(self, oe)
    IN [self |-> r.self, ret |-> r.ret[2]]

VacantEntry_insert(self, ve, chunk) ==
    LET loaded == replace(LoadedChunk_new(ve.height), chunk).self
    IN [self |-> [self EXCEPT !.map = [pos \in DOMAIN self.map \cup {ve.key} |->
                                         IF pos = ve.key THEN loaded ELSE self.map[pos]]],
        ret |-> ve.key]

\* (mutation of or_default: an occupied entry is overwritten with the default)
or_default_overwrites(self, e) ==
    IF e.tag = "Occupied"
    THEN [self |-> OccupiedEntry_insert(self, e, Chunk_new).self, ret |-> e.key]
    ELSE VacantEntry_insert(self, e, Chunk_new)

or_default(self, e) ==
    IF e.tag = "Occupied" THEN [self |-> self, ret |-> e.key]
    ELSE VacantEntry_insert(self, e, Chunk_new)

insert(self, pos, chunk) ==
    LET e == entry(self, pos)
    IN IF e.tag = "Occupied"
       THEN LET r == OccupiedEntry_insert(self, e, chunk)
            IN [self |-> r.self, ret |-> Some(r.ret)]
       ELSE [self |-> VacantEntry_insert(self, e, chunk).self, ret |-> None]

\* (mutation of remove: the map is drained, not the one entry removed)
remove_drains(self, pos) ==
    LET e == entry(self, pos)
    IN IF e.tag = "Occupied"
       THEN [self |-> [self EXCEPT !.map = [q \in {} |-> self.map[q]]],
             ret |-> Some(into_chunk(self.map[pos]))]
       ELSE [self |-> self, ret |-> None]

remove(self, pos) ==
    LET e == entry(self, pos)
    IN IF e.tag = "Occupied"
       THEN LET r == OccupiedEntry_remove(self, e)
            IN [self |-> r.self, ret |-> Some(r.ret)]
       ELSE [self |-> self, ret |-> None]

\* ------------------------------------------------------------------------
\* State
\* ------------------------------------------------------------------------
VARIABLES
    index,             \* the ChunkIndex: [map, height]
    readers,           \* per thread: where it is in write_init_packets, its writer
    stats,             \* since the threads were last all idle: was the cache
                       \* empty then, and how often a packet was assembled
    last,              \* the operation of the last step, and whether the cache
                       \* of its chunk was non-empty when it began
    debug_assertions,  \* the build: are debug_assert!s compiled in
    panicked           \* a debug_assert! has failed

vars == <<index, readers, stats, last, debug_assertions, panicked>>

\* Chunk positions of the index, and the chunk data handed to it.
Positions == {<<3, 4>>}

\* A chunk of n sections: a chest with its block entity in the top section,
\* stone in the sections below it.
RECURSIVE StoneBelow(_, _)
StoneBelow(c, k) ==
    IF k = 0 THEN c
    ELSE StoneBelow(Chunk_set_block_state(c, 3, 16 * (k - 1) + 4, 5, "STONE").self, k - 1)

FilledChunk(n) ==
    Chunk_set_block_entity(
        Chunk_set_block_state(StoneBelow(Chunk_with_height(16 * n), n - 1),
                              3, 16 * (n - 1) + 4, 5, "CHEST").self,
        3, 16 * (n - 1) + 4, 5, Some("nbt_a")).self

InputChunks ==
    {Chunk_with_height(16 * n) : n \in 0..(MaxSections + 1)}
        \cup {FilledChunk(n) : n \in 1..(MaxSections + 1)}

Idle == [pc |-> "idle", pos |-> None, writer |-> <<>>]
NoStats == [started_empty |-> FALSE, assemblies |-> 0]

Cached(pos) ==
    pos \in DOMAIN index.map /\ index.map[pos].cached_init_packets # <<>>

\* `&mut` access to the index or to one of its chunks: no thread is inside a
\* `&self` call.
Exclusive == \A r \in DOMAIN readers : readers[r].pc = "idle"

\* Every step: nothing runs after a failed assertion; `last` is recorded.
Did(op, pos) ==
    /\ ~panicked
    /\ last' = [op |-> op, cached |-> Cached(pos)]

\* A call through index.get_mut(pos) that leaves the chunk as `loaded`.
Mutated(op, pos, loaded) ==
    /\ Exclusive
    /\ get_mut(index, pos) # None
    /\ index' = [index EXCEPT !.map[pos] = loaded]
    /\ Did(op, pos)
    /\ UNCHANGED <<readers, stats, debug_assertions, panicked>>

\* A call on the index that leaves it as `idx`.
Indexed(op, pos, idx) ==
    /\ Exclusive
    /\ index' = idx
    /\ Did(op, pos)
    /\ UNCHANGED <<readers, stats, debug_assertions, panicked>>

\* A `&self` call that changes nothing.
Read(op, pos) ==
    /\ get(index, pos) # None
    /\ Did(op, pos)
    /\ UNCHANGED <<index, readers, stats, debug_assertions, panicked>>

\* ------------------------------------------------------------------------
\* Actions: ChunkIndex
\* ------------------------------------------------------------------------
Get(pos) ==
    /\ Did("get", pos)
    /\ UNCHANGED <<index, readers, stats, debug_assertions, panicked>>

\* The caller has the `&mut LoadedChunk`, if there is one, and has not yet
\* used it.
GetMut(pos) ==
    /\ Exclusive
    /\ Did("get_mut", pos)
    /\ UNCHANGED <<index, readers, stats, debug_assertions, panicked>>

Insert(pos, chunk) == Indexed("insert", pos, insert(index, pos, chunk).self)

Remove(pos) == Indexed("remove", pos, remove(index, pos).self)

EntryInsert(pos, chunk) ==
    LET e == entry(index, pos)
    IN IF e.tag = "Occupied"
       THEN Indexed("OccupiedEntry::insert", pos, OccupiedEntry_insert(index, e, chunk).self)
       ELSE Indexed("VacantEntry::insert", pos, VacantEntry_insert(index, e, chunk).self)

EntryRemove(pos) ==
    LET e == entry(index, pos)
    IN /\ e.tag = "Occupied"
       /\ Indexed("OccupiedEntry::remove", pos, OccupiedEntry_remove(index, e).self)

OrDefault(pos) == Indexed("or_default", pos, or_default(index, entry(index, pos)).self)

\* ------------------------------------------------------------------------
\* Actions: LoadedChunk, `&mut self`
\* ------------------------------------------------------------------------
Replace(pos, chunk) ==
    /\ get_mut(index, pos) # None
    /\ Mutated("replace", pos, replace(index.map[pos], chunk).self)

SetBlockState(pos, c, block) ==
    /\ get_mut(index, pos) # None
    /\ c \in BlockCoords(height(index.map[pos]))
    /\ Mutated("set_block_state", pos,
               set_block_state(index.map[pos], c[1], c[2], c[3], block).self)

FillBlockStateSection(pos, sect_y, block) ==
    /\ get_mut(index, pos) # None
    /\ sect_y \in SectionYs(height(index.map[pos]))
    /\ Mutated("fill_block_state_section", pos,
               fill_block_state_section(index.map[pos], sect_y, block))

\* The caller may write `w` through the reference it gets.
BlockEntityMut(pos, c, w) ==
    /\ get_mut(index, pos) # None
    /\ c \in BlockCoords(height(index.map[pos]))
    /\ LET r == block_entity_mut(index.map[pos], c[1], c[2], c[3])
       IN Mutated("block_entity_mut", pos,
                  IF r.ret = None \/ w = None THEN r.self
                  ELSE [r.self EXCEPT !.chunk.block_entities[r.ret[1]] = w[1]])

SetBlockEntity(pos, c, payload) ==
    /\ get_mut(index, pos) # None
    /\ c \in BlockCoords(height(index.map[pos]))
    /\ Mutated("set_block_entity", pos,
               set_block_entity(index.map[pos], c[1], c[2], c[3], payload).self)

ClearBlockEntities(pos) ==
    /\ get_mut(index, pos) # None
    /\ Mutated("clear_block_entities", pos, clear_block_entities(index.map[pos]))

SetBiome(pos, c, biome_id) ==
    /\ get_mut(index, pos) # None
    /\ c \in BiomeCoords(height(index.map[pos]))
    /\ Mutated("set_biome", pos, set_biome(index.map[pos], c[1], c[2], c[3], biome_id).self)

FillBiomeSection(pos, sect_y, biome_id) ==
    /\ get_mut(index, pos) # None
    /\ sect_y \in SectionYs(height(index.map[pos]))
    /\ Mutated("fill_biome_section", pos,
               fill_biome_section(index.map[pos], sect_y, biome_id))

ShrinkToFit(pos) ==
    /\ get_mut(index, pos) # None
    /\ Mutated("shrink_to_fit", pos, shrink_to_fit(index.map[pos]))

\* ------------------------------------------------------------------------
\* Actions: LoadedChunk, `&self`
\* ------------------------------------------------------------------------
ToChunk(pos) == Read("to_chunk", pos)

ViewerCount(pos) == Read("viewer_count", pos)

IncViewerCount(pos) ==
    /\ get(index, pos) # None
    /\ \/ index.map[pos].viewer_count \in {U32(n) : n \in 0..(MaxViewers - 1)}
       \/ index.map[pos].viewer_count = U32Max
    /\ index' = [index EXCEPT !.map[pos] = inc_viewer_count(@)]
    /\ Did("inc_viewer_count", pos)
    /\ UNCHANGED <<readers, stats, debug_assertions, panicked>>

DecViewerCount(pos) ==
    /\ get(index, pos) # None
    /\ index.map[pos].viewer_count \in {U32(n) : n \in 0..MaxViewers}
    /\ LET r == dec_viewer_count(index.map[pos], debug_assertions)
       IN /\ index' = [index EXCEPT !.map[pos] = r.self]
          /\ panicked' = r.panic
    /\ Did("dec_viewer_count", pos)
    /\ UNCHANGED <<readers, stats, debug_assertions>>

\* write_init_packets, thread r: the call.
Call(r, pos) ==
    /\ readers[r].pc = "idle"
    /\ get(index, pos) # None
    /\ readers' = [readers EXCEPT ![r] = [pc |-> "lock", pos |-> Some(pos), writer |-> <<>>]]
    /\ stats' = IF Exclusive
                THEN [started_empty |-> ~Cached(pos), assemblies |-> 0]
                ELSE stats
    /\ Did("write_init_packets", pos)
    /\ UNCHANGED <<index, debug_assertions, panicked>>

\* (mutation of Lock: the lock is taken without waiting for its holder)
LockWithoutWaiting(r) ==
    /\ readers[r].pc = "lock"
    /\ LET pos == readers[r].pos[1]
       IN /\ index' = [index EXCEPT !.map[pos].mutex = r]
          /\ Did("write_init_packets", pos)
    /\ readers' = [readers EXCEPT ![r].pc = "locked"]
    /\ UNCHANGED <<stats, debug_assertions, panicked>>

\* self.cached_init_packets.lock()
Lock(r) ==
    /\ readers[r].pc = "lock"
    /\ LET pos == readers[r].pos[1]
       IN /\ index.map[pos].mutex = 0
          /\ index' = [index EXCEPT !.map[pos].mutex = r]
          /\ Did("write_init_packets", pos)
    /\ readers' = [readers EXCEPT ![r].pc = "locked"]
    /\ UNCHANGED <<stats, debug_assertions, panicked>>

\* if init_packets.is_empty() { .. }
Fill(r, args) ==
    /\ readers[r].pc = "locked"
    /\ LET pos == readers[r].pos[1]
           f == fill_init_packets(index.map[pos], args.pos, args.info)
       IN /\ index' = [index EXCEPT !.map[pos] = f.self]
          /\ stats' = IF f.assembled
                      THEN [stats EXCEPT !.assemblies = IF @ < 2 THEN @ + 1 ELSE @]
                      ELSE stats
          /\ Did("write_init_packets", pos)
    /\ readers' = [readers EXCEPT ![r].pc = "filled"]
    /\ UNCHANGED <<debug_assertions, panicked>>

\* (mutation of Write: the guard is leaked, so the lock stays taken)
WriteKeepsLock(r) ==
    /\ readers[r].pc = "filled"
    /\ LET pos == readers[r].pos[1]
       IN /\ readers' = [readers EXCEPT
                ![r].pc = "done",
                ![r].writer = write_packet_bytes(@, index.map[pos].cached_init_packets)]
          /\ Did("write_init_packets", pos)
    /\ UNCHANGED <<index, stats, debug_assertions, panicked>>

\* writer.write_packet_bytes(&init_packets), and the guard is dropped.
Write(r) ==
    /\ readers[r].pc = "filled"
    /\ LET pos == readers[r].pos[1]
       IN /\ readers' = [readers EXCEPT
                ![r].pc = "done",
                ![r].writer = write_packet_bytes(@, index.map[pos].cached_init_packets)]
          /\ index' = [index EXCEPT !.map[pos].mutex = 0]
          /\ Did("write_init_packets", pos)
    /\ UNCHANGED <<stats, debug_assertions, panicked>>

\* The caller is done with the chunk reference and with its writer.
Finish(r) ==
    /\ readers[r].pc = "done"
    /\ readers' = [readers EXCEPT ![r] = Idle]
    /\ stats' = IF \A q \in DOMAIN readers \ {r} : readers[q].pc = "idle"
                THEN NoStats ELSE stats
    /\ Did("write_init_packets", readers[r].pos[1])
    /\ UNCHANGED <<index, debug_assertions, panicked>>

\* ------------------------------------------------------------------------
\* Specifications
\* ------------------------------------------------------------------------
\* What a caller writes as a block entity, or through block_entity_mut.
Payloads(compounds) == {None} \cup {Some(n) : n \in compounds}
MaxHeight == 16 * (MaxSections + 1)

\* One thread: a ChunkIndex of any height, empty at first, and every
\* operation of the index and of its chunks.
Init ==
    /\ index \in {ChunkIndex_new(16 * n) : n \in 1..MaxSections}
    /\ readers = [r \in {1} |-> Idle]
    /\ stats = NoStats
    /\ last = [op |-> "new", cached |-> FALSE]
    /\ debug_assertions \in BOOLEAN
    /\ panicked = FALSE

Next ==
    \/ \E pos \in Positions : Get(pos)
    \/ \E pos \in Positions, chunk \in InputChunks : Insert(pos, chunk)
    \/ \E pos \in Positions : Remove(pos)
    \/ \E pos \in Positions, chunk \in InputChunks : EntryInsert(pos, chunk)
    \/ \E pos \in Positions : EntryRemove(pos)
    \/ \E pos \in Positions : OrDefault(pos)
    \/ \E pos \in Positions, chunk \in InputChunks : Replace(pos, chunk)
    \/ \E pos \in Positions, c \in BlockCoords(MaxHeight), block \in BlockStates :
          SetBlockState(pos, c, block)
    \/ \E pos \in Positions, sect_y \in SectionYs(MaxHeight), block \in BlockStates :
          FillBlockStateSection(pos, sect_y, block)
    \/ \E pos \in Positions, c \in BlockCoords(MaxHeight), w \in Payloads({"nbt_a"}) :
          BlockEntityMut(pos, c, w)
    \/ \E pos \in Positions, c \in BlockCoords(MaxHeight), payload \in Payloads({"nbt_a"}) :
          SetBlockEntity(pos, c, payload)
    \/ \E pos \in Positions : ClearBlockEntities(pos)
    \/ \E pos \in Positions, c \in BiomeCoords(MaxHeight), biome_id \in Biomes :
          SetBiome(pos, c, biome_id)
    \/ \E pos \in Positions, sect_y \in SectionYs(MaxHeight), biome_id \in Biomes :
          FillBiomeSection(pos, sect_y, biome_id)
    \/ \E pos \in Positions : ShrinkToFit(pos)
    \/ \E pos \in Positions : ToChunk(pos)
    \/ \E pos \in Positions : ViewerCount(pos)
    \/ \E pos \in Positions : IncViewerCount(pos)
    \/ \E pos \in Positions : DecViewerCount(pos)
    \/ \E r \in DOMAIN readers, pos \in Positions : Call(r, pos)
    \/ \E r \in DOMAIN readers : Lock(r)
    \/ \E r \in DOMAIN readers, args \in WriteArgs : Fill(r, args)
    \/ \E r \in DOMAIN readers : Write(r)
    \/ \E r \in DOMAIN readers : Finish(r)

Spec == Init /\ [][Next]_vars

\* NumReaders threads on the loaded chunk of an index of one section, in a
\* build with debug assertions.
InitThreads ==
    /\ index = insert(ChunkIndex_new(16), <<3, 4>>, Chunk_new).self
    /\ readers = [r \in 1..NumReaders |-> Idle]
    /\ stats = NoStats
    /\ last = [op |-> "new", cached |-> FALSE]
    /\ debug_assertions = TRUE
    /\ panicked = FALSE

NextThreads ==
    \/ \E pos \in Positions, chunk \in InputChunks : Replace(pos, chunk)
    \/ \E pos \in Positions, c \in BlockCoords(16), block \in BlockStates :
          SetBlockState(pos, c, block)
    \/ \E pos \in Positions, sect_y \in SectionYs(16), block \in BlockStates :
          FillBlockStateSection(pos, sect_y, block)
    \/ \E pos \in Positions, c \in BlockCoords(16), w \in Payloads(Compounds) :
          BlockEntityMut(pos, c, w)
    \/ \E pos \in Positions, c \in BlockCoords(16), payload \in Payloads(Compounds) :
          SetBlockEntity(pos, c, payload)
    \/ \E pos \in Positions : ClearBlockEntities(pos)
    \/ \E pos \in Positions, c \in BiomeCoords(16), biome_id \in Biomes :
          SetBiome(pos, c, biome_id)
    \/ \E pos \in Positions, sect_y \in SectionYs(16), biome_id \in Biomes :
          FillBiomeSection(pos, sect_y, biome_id)
    \/ \E pos \in Positions : ShrinkToFit(pos)
    \/ \E pos \in Positions : ToChunk(pos)
    \/ \E pos \in Positions : ViewerCount(pos)
    \/ \E pos \in Positions : IncViewerCount(pos)
    \/ \E pos \in Positions : DecViewerCount(pos)
    \/ \E r \in DOMAIN readers, pos \in Positions : Call(r, pos)
    \/ \E r \in DOMAIN readers : Lock(r)
    \/ \E r \in DOMAIN readers, args \in WriteArgs : Fill(r, args)
    \/ \E r \in DOMAIN readers : Write(r)
    \/ \E r \in DOMAIN readers : Finish(r)

SpecThreads == InitThreads /\ [][NextThreads]_vars

\* The threads of SpecThreads under a fair scheduler, with the mutations
\* that empty the cache between their calls. A thread that is inside
\* write_init_packets goes on running (WF), and a thread that waits for the
\* lock gets it if the lock is free again and again (SF: the lock is
\* parking_lot's Mutex, which hands the lock over fairly in the end). No
\* thread has to call, and no caller has to mutate.
NextProgress ==
    \/ \E pos \in Positions, c \in BlockCoords(16), block \in BlockStates :
          SetBlockState(pos, c, block)
    \/ \E pos \in Positions, c \in BlockCoords(16), payload \in Payloads({"nbt_a"}) :
          SetBlockEntity(pos, c, payload)
    \/ \E pos \in Positions : IncViewerCount(pos)
    \/ \E r \in DOMAIN readers, pos \in Positions : Call(r, pos)
    \/ \E r \in DOMAIN readers : Lock(r)
    \/ \E r \in DOMAIN readers, args \in WriteArgs : Fill(r, args)
    \/ \E r \in DOMAIN readers : Write(r)
    \/ \E r \in DOMAIN readers : Finish(r)

Fairness ==
    \A r \in 1..NumReaders :
        /\ SF_vars(Lock(r))
        /\ WF_vars(\E args \in WriteArgs : Fill(r, args))
        /\ WF_vars(Write(r))
        /\ WF_vars(Finish(r))

SpecProgress == InitThreads /\ [][NextProgress]_vars /\ Fairness

\* An index with two positions, one thread: the operations of the index and
\* of its entries on either position, and between them the viewers and the
\* write_init_packets calls that make the chunks differ.
IndexPositions == {<<3, 4>>, <<0, 0>>}
IndexChunks == {Chunk_new, FilledChunk(MaxSections + 1)}

InitIndex ==
    /\ index \in {ChunkIndex_new(16 * n) : n \in 1..MaxSections}
    /\ readers = [r \in {1} |-> Idle]
    /\ stats = NoStats
    /\ last = [op |-> "new", cached |-> FALSE]
    /\ debug_assertions = TRUE
    /\ panicked = FALSE

NextIndex ==
    \/ \E pos \in IndexPositions : Get(pos)
    \/ \E pos \in IndexPositions : GetMut(pos)
    \/ \E pos \in IndexPositions, chunk \in IndexChunks : Insert(pos, chunk)
    \/ \E pos \in IndexPositions : Remove(pos)
    \/ \E pos \in IndexPositions, chunk \in IndexChunks : EntryInsert(pos, chunk)
    \/ \E pos \in IndexPositions : EntryRemove(pos)
    \/ \E pos \in IndexPositions : OrDefault(pos)
    \/ \E pos \in IndexPositions : IncViewerCount(pos)
    \/ \E r \in DOMAIN readers, pos \in IndexPositions : Call(r, pos)
    \/ \E r \in DOMAIN readers : Lock(r)
    \/ \E r \in DOMAIN readers, args \in WriteArgs : Fill(r, args)
    \/ \E r \in DOMAIN readers : Write(r)
    \/ \E r \in DOMAIN readers : Finish(r)

SpecIndex == InitIndex /\ [][NextIndex]_vars

\* The threads of SpecThreads in either build, with the viewer count
\* operations of any thread between the steps of their write_init_packets
\* calls, and no mutation of the chunk.
InitViewers ==
    /\ index = insert(ChunkIndex_new(16), <<3, 4>>, Chunk_new).self
    /\ readers = [r \in 1..NumReaders |-> Idle]
    /\ stats = NoStats
    /\ last = [op |-> "new", cached |-> FALSE]
    /\ debug_assertions \in BOOLEAN
    /\ panicked = FALSE

NextViewers ==
    \/ \E pos \in Positions : ViewerCount(pos)
    \/ \E pos \in Positions : IncViewerCount(pos)
    \/ \E pos \in Positions : DecViewerCount(pos)
    \/ \E r \in DOMAIN readers, pos \in Positions : Call(r, pos)
    \/ \E r \in DOMAIN readers : Lock(r)
    \/ \E r \in DOMAIN readers, args \in WriteArgs : Fill(r, args)
    \/ \E r \in DOMAIN readers : Write(r)
    \/ \E r \in DOMAIN readers : Finish(r)

SpecViewers == InitViewers /\ [][NextViewers]_vars

\* ------------------------------------------------------------------------
\* Properties
\* ------------------------------------------------------------------------
CacheOf(idx, pos) == idx.map[pos].cached_init_packets
AnyPayload == Payloads(Compounds)

\* C1. Invalidation completeness: on a chunk whose cache is non-empty, a
\* set_block_state with a state other than the current one, a set_biome with
\* a biome other than the current one, fill_block_state_section,
\* fill_biome_section, set_block_entity(Some(..)), set_block_entity(None) and
\* block_entity_mut on a coordinate that holds a block entity each leave the
\* cache empty.
C1_InvalidationCompleteness ==
    [][\A pos \in Positions :
        Cached(pos) =>
          /\ last'.op = "set_block_state" =>
                \A c \in BlockCoords(MaxHeight), block \in BlockStates :
                    SetBlockState(pos, c, block)
                      /\ block # block_state(index.map[pos], c[1], c[2], c[3])
                    => CacheOf(index', pos) = <<>>
          /\ last'.op = "set_biome" =>
                \A c \in BiomeCoords(MaxHeight), biome_id \in Biomes :
                    SetBiome(pos, c, biome_id)
                      /\ biome_id # biome(index.map[pos], c[1], c[2], c[3])
                    => CacheOf(index', pos) = <<>>
          /\ last'.op = "fill_block_state_section" =>
                \A sect_y \in SectionYs(MaxHeight), block \in BlockStates :
                    FillBlockStateSection(pos, sect_y, block) => CacheOf(index', pos) = <<>>
          /\ last'.op = "fill_biome_section" =>
                \A sect_y \in SectionYs(MaxHeight), biome_id \in Biomes :
                    FillBiomeSection(pos, sect_y, biome_id) => CacheOf(index', pos) = <<>>
          /\ last'.op = "set_block_entity" =>
                \A c \in BlockCoords(MaxHeight), payload \in AnyPayload :
                    SetBlockEntity(pos, c, payload) => CacheOf(index', pos) = <<>>
          /\ last'.op = "block_entity_mut" =>
                \A c \in BlockCoords(MaxHeight), w \in AnyPayload :
                    BlockEntityMut(pos, c, w)
                      /\ block_entity(index.map[pos], c[1], c[2], c[3]) # None
                    => CacheOf(index', pos) = <<>>
    ]_vars

\* A set_block_state has emptied a cache that was built.
C1_Witness ==
    \E pos \in DOMAIN index.map :
        /\ last = [op |-> "set_block_state", cached |-> TRUE]
        /\ CacheOf(index, pos) = <<>>

\* C2. Idempotent no-op write: set_block_state with the block state already
\* stored at the coordinate, and set_biome with the biome already stored
\* there, leave the cache as it was and return the old (unchanged) value.
C2_NoOpWriteKeepsCache ==
    [][\A pos \in Positions :
          /\ last'.op = "set_block_state" =>
                \A c \in BlockCoords(MaxHeight), block \in BlockStates :
                    SetBlockState(pos, c, block)
                      /\ block = block_state(index.map[pos], c[1], c[2], c[3])
                    => /\ CacheOf(index', pos) = CacheOf(index, pos)
                       /\ set_block_state(index.map[pos], c[1], c[2], c[3], block).ret = block
                       /\ block_state(index'.map[pos], c[1], c[2], c[3]) = block
          /\ last'.op = "set_biome" =>
                \A c \in BiomeCoords(MaxHeight), biome_id \in Biomes :
                    SetBiome(pos, c, biome_id)
                      /\ biome_id = biome(index.map[pos], c[1], c[2], c[3])
                    => /\ CacheOf(index', pos) = CacheOf(index, pos)
                       /\ set_biome(index.map[pos], c[1], c[2], c[3], biome_id).ret = biome_id
                       /\ biome(index'.map[pos], c[1], c[2], c[3]) = biome_id
    ]_vars

\* A set_biome on a chunk whose cache was built has left the cache in place.
C2_Witness ==
    \E pos \in DOMAIN index.map :
        /\ last = [op |-> "set_biome", cached |-> TRUE]
        /\ CacheOf(index, pos) # <<>>

\* The bytes Packet Assembly makes of a chunk: one frame in an empty buffer.
Assembled(self, args) ==
    PacketWriter_write_packet(<<>>, args.info.threshold, ChunkDataS2c(self, args.pos, args.info))

SharedOps == {"new", "write_init_packets", "to_chunk", "viewer_count",
              "inc_viewer_count", "dec_viewer_count"}

\* C3. Cache coherence: in every reachable state, under every interleaving
\* of the threads' reads and the mutations, a non-empty cache holds the bytes
\* Packet Assembly makes of the chunk's current storage with the position
\* and layer parameters of one of the calls; and while a thread is inside
\* write_init_packets the last step taken was no mutation.
C3_CacheCoherence ==
    /\ \A pos \in DOMAIN index.map :
          Cached(pos) =>
            \E args \in WriteArgs : CacheOf(index, pos) = Assembled(index.map[pos], args)
    /\ (\E r \in DOMAIN readers : readers[r].pc # "idle") => last.op \in SharedOps

\* A chunk with a block entity was changed and its cache built again, and
\* a second thread is about to read the cache while the first holds its bytes.
C3_Witness ==
    \E pos \in DOMAIN index.map, r1, r2 \in DOMAIN readers :
        /\ Cached(pos)
        /\ DOMAIN index.map[pos].chunk.block_entities # {}
        /\ readers[r1].pc = "done"
        /\ readers[r2].pc = "locked"

\* C4. Cache rebuild: when write_init_packets has returned, the cache is
\* non-empty and the writer holds exactly the cache's bytes; and a call that
\* finds the cache empty stores the bytes assembled from the storage as it
\* is then, with the call's position and layer parameters.
C4_CacheRebuild ==
    [][/\ \A r \in DOMAIN readers :
            readers'[r].pc = "done" =>
              /\ CacheOf(index', readers'[r].pos[1]) # <<>>
              /\ readers'[r].writer = CacheOf(index', readers'[r].pos[1])
       /\ \A r \in DOMAIN readers :
            readers[r].pc = "locked" /\ readers'[r].pc = "filled"
              /\ ~Cached(readers[r].pos[1])
            => \A args \in WriteArgs :
                  Fill(r, args) =>
                    /\ index'.map[readers[r].pos[1]].chunk = index.map[readers[r].pos[1]].chunk
                    /\ CacheOf(index', readers[r].pos[1])
                         = Assembled(index'.map[readers[r].pos[1]], args)
    ]_vars

\* A call that found the cache empty after fill_block_state_section filled a
\* section with stone has returned, with the stone in the bytes it wrote.
C4_Witness ==
    \E pos \in DOMAIN index.map, r \in DOMAIN readers :
        /\ readers[r].pc = "done"
        /\ stats.started_empty /\ stats.assemblies = 1
        /\ Len(index.map[pos].chunk.sections) >= 1
        /\ index.map[pos].chunk.sections[1].block_states[3 + 5 * 16 + 4 * 256] = "STONE"
        /\ Len(readers[r].writer) = 1
        /\ readers[r].writer[1].packet.blocks_and_biomes[1].non_air = 1

\* C5. Single rebuild under concurrent reads: between two moments at which
\* no thread is inside write_init_packets, the packet is assembled at most
\* once: once if the cache was empty at the first call and a call has got
\* past its emptiness test, never if it was non-empty; a thread that tests or
\* fills the cache holds its lock; and all calls write the same bytes.
C5_SingleRebuild ==
    /\ stats.assemblies <= 1
    /\ ~stats.started_empty => stats.assemblies = 0
    /\ (stats.started_empty /\ \E r \in DOMAIN readers : readers[r].pc \in {"filled", "done"})
          => stats.assemblies = 1
    /\ \A r \in DOMAIN readers :
          readers[r].pc \in {"locked", "filled"} => index.map[readers[r].pos[1]].mutex = r
    /\ \A r1, r2 \in DOMAIN readers :
          readers[r1].pc = "done" /\ readers[r2].pc = "done"
            => readers[r1].writer = readers[r2].writer

\* Two threads called on an empty cache; both have returned with the bytes
\* of the one assembly.
C5_Witness ==
    \E r1, r2 \in DOMAIN readers :
        /\ r1 # r2
        /\ readers[r1].pc = "done" /\ readers[r2].pc = "done"
        /\ readers[r1].writer # <<>>
        /\ stats.started_empty /\ stats.assemblies = 1

\* C6. Index height invariant: after any sequence of operations of the
\* index, of its entries and of the chunks reached through get_mut, every
\* LoadedChunk the index holds has the index's height, whatever the height
\* of the chunk data passed in.
C6_IndexHeight ==
    \A pos \in DOMAIN index.map : height(index.map[pos]) = index.height

\* insert has stored the data of a chunk of two sections (stone below its
\* chest) in an index of height 16.
C6_Witness ==
    \E pos \in DOMAIN index.map :
        /\ last.op = "insert"
        /\ index.height = 16
        /\ block_state(index.map[pos], 3, 4, 5) = "STONE"

\* C7, as claimed: after insert(p, c) on a position that holds a chunk, the
\* chunk at p has viewer count 0 and an empty cache.
C7_InsertResetsViewerCount ==
    [][last'.op = "insert" =>
        \A pos \in Positions, chunk \in InputChunks :
            Insert(pos, chunk) /\ pos \in DOMAIN index.map
            => /\ index'.map[pos].viewer_count = U32(0)
               /\ CacheOf(index', pos) = <<>>
    ]_vars

\* C7, amended: after insert(p, c) on a position that holds a chunk, the
\* chunk at p has the viewer count of the chunk whose data it displaced and
\* an empty cache; on a vacant position it has viewer count 0 and an empty
\* cache.
C7_InsertKeepsViewerCount ==
    [][last'.op = "insert" =>
        \A pos \in Positions, chunk \in InputChunks :
            Insert(pos, chunk)
            => /\ index'.map[pos].viewer_count =
                    IF pos \in DOMAIN index.map THEN index.map[pos].viewer_count ELSE U32(0)
               /\ CacheOf(index', pos) = <<>>
    ]_vars

\* insert has replaced the data of a chunk that had a viewer and a cache.
C7_Witness ==
    \E pos \in DOMAIN index.map :
        /\ last = [op |-> "insert", cached |-> TRUE]
        /\ index.map[pos].viewer_count = U32(1)
        /\ CacheOf(index, pos) = <<>>

\* C8. Insert/get equivalence: insert(p, c) returns None when p was vacant
\* and Some(the data stored at p) when it was occupied, and a following
\* get(p) gives a chunk whose data is c resized to the index's height.
C8_InsertGet ==
    [][last'.op = "insert" =>
        \A pos \in Positions, chunk \in InputChunks :
            Insert(pos, chunk)
            => /\ insert(index, pos, chunk).ret =
                    IF pos \in DOMAIN index.map THEN Some(index.map[pos].chunk) ELSE None
               /\ get(index', pos) # None
               /\ get(index', pos)[1].chunk = Chunk_set_height(chunk, index.height)
    ]_vars

\* insert has replaced the data of a chunk that has a viewer by the
\* one-section chest chunk.
C8_Witness ==
    \E pos \in DOMAIN index.map :
        /\ last.op = "insert"
        /\ index.height = 16
        /\ index.map[pos].chunk = FilledChunk(1)
        /\ index.map[pos].viewer_count = U32(1)

\* C9. remove(p) on an occupied position returns Some(the data stored at p)
\* and leaves p absent: get(p) is None and a following insert(p, c) makes a
\* chunk with viewer count 0 and an empty cache. On a vacant position it
\* returns None and leaves the index as it was.
C9_Remove ==
    [][last'.op = "remove" =>
        \A pos \in Positions :
            Remove(pos)
            => IF pos \in DOMAIN index.map
               THEN /\ remove(index, pos).ret = Some(index.map[pos].chunk)
                    /\ get(index', pos) = None
                    /\ \A chunk \in InputChunks :
                          LET again == insert(index', pos, chunk).self.map[pos]
                          IN /\ again.viewer_count = U32(0)
                             /\ again.cached_init_packets = <<>>
               ELSE /\ remove(index, pos).ret = None
                    /\ index' = index
    ]_vars

\* remove has taken out a chunk that had a cache.
C9_Witness ==
    /\ last = [op |-> "remove", cached |-> TRUE]
    /\ DOMAIN index.map = {}

\* C10. entry(p).or_default(): on a vacant position it stores an all-air
\* chunk of the index's height with viewer count 0 and an empty cache and
\* returns the handle to it; on an occupied position it returns the chunk
\* there and leaves its data, viewer count and cache as they were.
C10_OrDefault ==
    [][last'.op = "or_default" =>
        \A pos \in Positions :
            OrDefault(pos)
            => /\ or_default(index, entry(index, pos)).ret = pos
               /\ pos \in DOMAIN index'.map
               /\ IF pos \in DOMAIN index.map
                  THEN index'.map[pos] = index.map[pos]
                  ELSE /\ index'.map[pos].chunk = Chunk_with_height(index.height)
                       /\ index'.map[pos].viewer_count = U32(0)
                       /\ index'.map[pos].cached_init_packets = <<>>
    ]_vars

\* or_default has come upon a chunk with a chest, a viewer and a cache.
C10_Witness ==
    \E pos \in DOMAIN index.map :
        /\ last = [op |-> "or_default", cached |-> TRUE]
        /\ CacheOf(index, pos) # <<>>
        /\ index.map[pos].viewer_count = U32(1)
        /\ DOMAIN index.map[pos].chunk.block_entities # {}

\* ------------------------------------------------------------------------
\* Viewer count
\* ------------------------------------------------------------------------
\* The orders in which n inc_viewer_count calls and n dec_viewer_count calls
\* of any threads can take effect.
ViewerCalls(n) ==
    {calls \in [1..(2 * n) -> {"inc", "dec"}] :
        Cardinality({i \in 1..(2 * n) : calls[i] = "inc"}) = n}

\* The chunk after the calls from the i-th on took effect in this order, and
\* whether one of the decrements ran at count 0 (at_zero: one did before).
RECURSIVE after_viewer_calls(_, _, _, _)
after_viewer_calls(self, calls, i, at_zero) ==
    IF i > Len(calls) THEN [self |-> self, at_zero |-> at_zero]
    ELSE IF calls[i] = "inc"
         THEN after_viewer_calls(inc_viewer_count(self), calls, i + 1, at_zero)
         ELSE after_viewer_calls(dec_viewer_count(self, FALSE).self, calls, i + 1,
                                 at_zero \/ viewer_count(self) = U32(0))

\* Counts a chunk may start from: the least ones, the ones around the carry
\* between the halves, and the greatest.
StartCounts ==
    {U32(n) : n \in 0..MaxViewers} \cup {<<0, 65535>>, <<1, 0>>, U32Max}

\* C11. Viewer count bookkeeping: each inc_viewer_count / dec_viewer_count
\* step of a thread, wherever the other threads are, adds / subtracts exactly
\* one and changes nothing else; and from every reachable chunk, with any
\* starting count, N increments and N decrements taking effect in any order
\* in which no decrement runs at count 0 give back the starting count.
C11_ViewerCountBookkeeping ==
    /\ [](\A n \in 1..(MaxViewers + 1) :
             \A calls \in ViewerCalls(n) :
                \A pos \in DOMAIN index.map, start \in StartCounts :
                   LET before == [index.map[pos] EXCEPT !.viewer_count = start]
                       after == after_viewer_calls(before, calls, 1, FALSE)
                   IN ~after.at_zero => after.self = before)
    /\ [][/\ last'.op = "inc_viewer_count" =>
               \A pos \in Positions :
                  IncViewerCount(pos) =>
                     index' = [index EXCEPT !.map[pos].viewer_count = wrapping_add1(@)]
          /\ last'.op = "dec_viewer_count" =>
               \A pos \in Positions :
                  DecViewerCount(pos) =>
                     /\ index' = [index EXCEPT !.map[pos].viewer_count = wrapping_sub1(@)]
                     /\ wrapping_add1(viewer_count(index'.map[pos]))
                          = viewer_count(index.map[pos])
       ]_vars

\* A decrement has brought the count back to 0 after an increment, while
\* another thread holds the cache lock inside write_init_packets.
C11_Witness ==
    \E pos \in DOMAIN index.map, r \in DOMAIN readers :
        /\ last.op = "dec_viewer_count"
        /\ ~panicked
        /\ viewer_count(index.map[pos]) = U32(0)
        /\ readers[r].pc = "locked"

\* C12, as claimed: the viewer count never underflows; a dec_viewer_count
\* at count 0 is trapped, so that no reachable state holds a wrapped-around
\* count (the increments of the model stop at MaxViewers, so a count above
\* it has wrapped around).
C12_NoWrappedCount ==
    \A pos \in DOMAIN index.map :
        viewer_count(index.map[pos]) \in {U32(n) : n \in 0..MaxViewers}

\* C12, amended: a dec_viewer_count at count 0 first wraps the stored count
\* around to u32::MAX; a build with debug assertions then traps, a build
\* without them goes on with the wrapped-around count. A dec_viewer_count
\* at any other count subtracts one and does not trap, and nothing but
\* dec_viewer_count traps.
C12_UnderflowWrapsThenTraps ==
    [][/\ last'.op = "dec_viewer_count" =>
            \A pos \in Positions :
               DecViewerCount(pos) =>
                  IF viewer_count(index.map[pos]) = U32(0)
                  THEN /\ viewer_count(index'.map[pos]) = U32Max
                       /\ panicked' = debug_assertions
                  ELSE /\ wrapping_add1(viewer_count(index'.map[pos]))
                            = viewer_count(index.map[pos])
                       /\ viewer_count(index'.map[pos]) # U32Max
                       /\ ~panicked'
       /\ last'.op # "dec_viewer_count" => ~panicked'
    ]_vars

\* A build with debug assertions has trapped on a dec_viewer_count at 0, and
\* the chunk holds u32::MAX as its count.
C12_Witness ==
    \E pos \in DOMAIN index.map :
        /\ last.op = "dec_viewer_count"
        /\ debug_assertions /\ panicked
        /\ viewer_count(index.map[pos]) = U32Max

\* C13. LoadedChunk::replace(c) stores c resized to the chunk's height,
\* returns the storage held before the call, leaves the cache empty whatever
\* c is (also when c is the data the chunk holds already), and leaves the
\* viewer count and the chunk's height as they were.
C13_Replace ==
    [][last'.op = "replace" =>
        \A pos \in Positions, chunk \in InputChunks :
            Replace(pos, chunk)
            => /\ index'.map[pos].chunk = Chunk_set_height(chunk, height(index.map[pos]))
               /\ replace(index.map[pos], chunk).ret = index.map[pos].chunk
               /\ CacheOf(index', pos) = <<>>
               /\ viewer_count(index'.map[pos]) = viewer_count(index.map[pos])
               /\ height(index'.map[pos]) = height(index.map[pos])
               /\ DOMAIN index'.map = DOMAIN index.map
    ]_vars

\* replace has run on a chunk that had a cache and a viewer, and the chunk
\* holds the chest chunk of two sections cut down to the one section of the
\* chunk's height.
C13_Witness ==
    \E pos \in DOMAIN index.map :
        /\ last = [op |-> "replace", cached |-> TRUE]
        /\ viewer_count(index.map[pos]) = U32(1)
        /\ height(index.map[pos]) = 16
        /\ index.map[pos].chunk = Chunk_set_height(FilledChunk(2), 16)
        /\ CacheOf(index, pos) = <<>>

\* C14. Unconditional invalidation: every fill_block_state_section,
\* fill_biome_section and set_block_entity call leaves the cache empty, also
\* a call that leaves the storage as it was (a fill with the value the
\* section holds throughout, a payload equal to the stored one, None for a
\* coordinate without a block entity).
C14_UnconditionalInvalidation ==
    [][/\ last'.op = "fill_block_state_section" =>
            \A pos \in Positions, sect_y \in SectionYs(MaxHeight), block \in BlockStates :
               FillBlockStateSection(pos, sect_y, block) => CacheOf(index', pos) = <<>>
       /\ last'.op = "fill_biome_section" =>
            \A pos \in Positions, sect_y \in SectionYs(MaxHeight), biome_id \in Biomes :
               FillBiomeSection(pos, sect_y, biome_id) => CacheOf(index', pos) = <<>>
       /\ last'.op = "set_block_entity" =>
            \A pos \in Positions, c \in BlockCoords(MaxHeight), payload \in AnyPayload :
               SetBlockEntity(pos, c, payload) => CacheOf(index', pos) = <<>>
    ]_vars

\* set_block_entity has run on a chunk that had a cache; the chunk is all
\* air without a block entity afterwards, as after set_block_entity(None) on
\* a new chunk, and its cache is empty.
C14_Witness ==
    \E pos \in DOMAIN index.map :
        /\ last = [op |-> "set_block_entity", cached |-> TRUE]
        /\ index.map[pos].chunk = Chunk_with_height(index.height)
        /\ CacheOf(index, pos) = <<>>

\* C15. Reader progress: a thread inside write_init_packets that has not
\* got the cache lock waits only while another thread inside
\* write_init_packets holds it; under a fair scheduler every call returns,
\* and every thread that took the lock gives it back.
C15_ReaderProgress ==
    /\ [](\A r \in DOMAIN readers :
            readers[r].pc = "lock" /\ index.map[readers[r].pos[1]].mutex # 0
            => \E q \in DOMAIN readers \ {r} :
                  /\ index.map[readers[r].pos[1]].mutex = q
                  /\ readers[q].pc \in {"locked", "filled"}
                  /\ readers[q].pos = readers[r].pos)
    /\ \A r \in 1..NumReaders :
          /\ (readers[r].pc = "lock") ~> (readers[r].pc = "done")
          /\ (readers[r].pc \in {"locked", "filled"})
                ~> (\A pos \in DOMAIN index.map : index.map[pos].mutex # r)

\* A thread waits for the lock while the other one, which found the cache
\* empty, holds it and has assembled the packet.
C15_Witness ==
    \E r, q \in DOMAIN readers, pos \in DOMAIN index.map :
        /\ readers[r].pc = "lock"
        /\ readers[q].pc = "filled"
        /\ index.map[pos].mutex = q
        /\ stats.started_empty /\ stats.assemblies = 1

\* C16. Frame of the `&self` operations: to_chunk and viewer_count change
\* nothing (to_chunk gives the chunk's data); inc_viewer_count and
\* dec_viewer_count change the viewer count of their chunk and nothing else;
\* no step of write_init_packets changes the data or the viewer count of a
\* chunk, or which chunks there are.
C16_SharedFrame ==
    [][/\ last'.op \in {"to_chunk", "viewer_count"} =>
            /\ index' = index
            /\ \A pos \in DOMAIN index.map : to_chunk(index.map[pos]) = index.map[pos].chunk
       /\ last'.op \in {"inc_viewer_count", "dec_viewer_count"} =>
            \E pos \in DOMAIN index.map :
               /\ index' = [index EXCEPT
                              !.map[pos].viewer_count = viewer_count(index'.map[pos])]
               /\ viewer_count(index'.map[pos]) # viewer_count(index.map[pos])
       /\ last'.op = "write_init_packets" =>
            /\ DOMAIN index'.map = DOMAIN index.map
            /\ index'.height = index.height
            /\ \A pos \in DOMAIN index.map :
                  /\ index'.map[pos].chunk = index.map[pos].chunk
                  /\ viewer_count(index'.map[pos]) = viewer_count(index.map[pos])
    ]_vars

\* dec_viewer_count has taken the last viewer from a chunk with a chest and
\* a cache; the cache is still there.
C16_Witness ==
    \E pos \in DOMAIN index.map :
        /\ last = [op |-> "dec_viewer_count", cached |-> TRUE]
        /\ viewer_count(index.map[pos]) = U32(0)
        /\ CacheOf(index, pos) # <<>>
        /\ block_state(index.map[pos], 3, 4, 5) = "CHEST"

\* The block entities a client is to be told of: one record for every
\* coordinate that holds a block entity and whose block state has a block
\* entity kind, read through block_entity and block_state.
LiveBlockEntities(self, info) ==
    {[packed_xz |-> AsI8(c[1] * 16 + c[3]),
      y |-> c[2] + info.min_y,
      kind |-> block_entity_kind(block_state(self, c[1], c[2], c[3]))[1],
      data |-> block_entity(self, c[1], c[2], c[3])[1]] :
        c \in {cc \in BlockCoords(height(self)) :
                 /\ block_entity(self, cc[1], cc[2], cc[3]) # None
                 /\ block_entity_kind(block_state(self, cc[1], cc[2], cc[3])) # None}}

\* C17. Stale block-entity filtering: the block-entity records of an
\* assembled packet are, once each, the entries of the block-entity mapping
\* whose block state at that coordinate has a block entity kind; an entry
\* whose block state has none is left out of the packet, and assembling the
\* packet leaves it in the storage.
C17_StaleBlockEntities ==
    [][last'.op = "write_init_packets" =>
        \A r \in DOMAIN readers :
            /\ readers[r].pc = "locked"
            /\ ~Cached(readers[r].pos[1])
            => \A args \in WriteArgs :
                  Fill(r, args) =>
                    LET pos == readers[r].pos[1]
                        records == CacheOf(index', pos)[1].packet.block_entities
                    IN /\ {records[i] : i \in 1..Len(records)}
                            = LiveBlockEntities(index.map[pos], args.info)
                       /\ Len(records) = Cardinality(LiveBlockEntities(index.map[pos], args.info))
                       /\ index'.map[pos].chunk = index.map[pos].chunk
    ]_vars

\* A packet was assembled for a chunk that holds a block entity where its
\* block is stone: the packet has no block-entity record, the storage still
\* has the entry.
C17_Witness ==
    \E pos \in DOMAIN index.map, r \in DOMAIN readers :
        /\ readers[r].pc = "filled"
        /\ stats.assemblies = 1
        /\ block_state(index.map[pos], 3, 4, 5) = "STONE"
        /\ block_entity(index.map[pos], 3, 4, 5) # None
        /\ CacheOf(index, pos)[1].packet.block_entities = <<>>

\* C18. A cache hit ignores the call's arguments: a call that finds the
\* cache non-empty leaves it as it is whatever position and layer parameters
\* it was given (so the bytes stay those assembled for the arguments of the
\* call that built them), assembles nothing, and writes those bytes to its
\* writer.
C18_CacheHitIgnoresArgs ==
    [][last'.op = "write_init_packets" =>
        \A r \in DOMAIN readers :
            /\ (readers[r].pc = "locked" /\ Cached(readers[r].pos[1]))
                => \A args \in WriteArgs :
                      Fill(r, args) =>
                        LET pos == readers[r].pos[1]
                        IN /\ CacheOf(index', pos) = CacheOf(index, pos)
                           /\ \E built \in WriteArgs :
                                 CacheOf(index', pos) = Assembled(index.map[pos], built)
                           /\ \E other \in WriteArgs :
                                 CacheOf(index', pos) # Assembled(index.map[pos], other)
                           /\ stats' = stats
            /\ (readers[r].pc = "filled" /\ Write(r))
                => readers'[r].writer = CacheOf(index, readers[r].pos[1])
    ]_vars

\* A call has returned that found the cache built, for the position (0, 0)
\* and its layer parameters, by an earlier call: nothing was assembled in
\* it, and its writer holds the bytes made for (0, 0).
C18_Witness ==
    \E pos \in DOMAIN index.map, r \in DOMAIN readers :
        /\ readers[r].pc = "done"
        /\ ~stats.started_empty /\ stats.assemblies = 0
        /\ Len(readers[r].writer) = 1
        /\ readers[r].writer[1].packet.pos = <<0, 0>>
        /\ readers[r].writer[1].threshold = 256
        /\ pos # <<0, 0>>

\* C19. Conditional invalidation on block-entity access: block_entity_mut
\* leaves the cache empty if the coordinate holds a block entity, whether or
\* not the caller then writes through the reference, and leaves the chunk
\* with its cache as it was if the coordinate holds none;
\* clear_block_entities leaves the cache empty if the chunk holds a block
\* entity and leaves the chunk with its cache as it was if it holds none.
C19_ConditionalInvalidation ==
    [][/\ last'.op = "block_entity_mut" =>
            \A pos \in Positions, c \in BlockCoords(MaxHeight), w \in AnyPayload :
               BlockEntityMut(pos, c, w) =>
                  IF block_entity(index.map[pos], c[1], c[2], c[3]) # None
                  THEN CacheOf(index', pos) = <<>>
                  ELSE index' = index
       /\ last'.op = "clear_block_entities" =>
            \A pos \in Positions :
               ClearBlockEntities(pos) =>
                  IF DOMAIN index.map[pos].chunk.block_entities # {}
                  THEN /\ CacheOf(index', pos) = <<>>
                       /\ DOMAIN index'.map[pos].chunk.block_entities = {}
                  ELSE index' = index
    ]_vars

\* block_entity_mut has run on a chunk with a cache, at a coordinate with a
\* chest but no block entity: the cache is still there.
C19_Witness ==
    \E pos \in DOMAIN index.map :
        /\ last = [op |-> "block_entity_mut", cached |-> TRUE]
        /\ block_state(index.map[pos], 3, 4, 5) = "CHEST"
        /\ DOMAIN index.map[pos].chunk.block_entities = {}
        /\ CacheOf(index, pos) # <<>>

\* The positions other than p are present or absent as before, with the
\* chunk (data, viewer count, cache) they had, and the height of the index
\* is as before.
OthersUnchanged(p) ==
    /\ index'.height = index.height
    /\ DOMAIN index'.map \ {p} = DOMAIN index.map \ {p}
    /\ \A q \in DOMAIN index.map \ {p} : index'.map[q] = index.map[q]

\* C20. Position independence: an operation of the index or of an entry
\* handle that is addressed to position p leaves every other position as it
\* was and keeps the height of the index; no step at all changes that
\* height; a position enters the index only by an insert on a vacant slot
\* (insert, VacantEntry::insert, or_default), with viewer count 0 and an
\* empty cache, and leaves it only by a remove.
C20_PositionIndependence ==
    [][/\ index'.height = index.height
       /\ \A p \in DOMAIN index'.map \ DOMAIN index.map :
             /\ last'.op \in {"insert", "VacantEntry::insert", "or_default"}
             /\ DOMAIN index'.map = DOMAIN index.map \cup {p}
             /\ viewer_count(index'.map[p]) = U32(0)
             /\ CacheOf(index', p) = <<>>
       /\ \A p \in DOMAIN index.map \ DOMAIN index'.map :
             /\ last'.op \in {"remove", "OccupiedEntry::remove"}
             /\ DOMAIN index'.map = DOMAIN index.map \ {p}
       /\ last'.op \in {"get", "get_mut"} =>
             \A p \in IndexPositions : (Get(p) \/ GetMut(p)) => index' = index
       /\ last'.op = "insert" =>
             \A p \in IndexPositions, chunk \in IndexChunks :
                Insert(p, chunk) => OthersUnchanged(p)
       /\ last'.op = "remove" =>
             \A p \in IndexPositions : Remove(p) => OthersUnchanged(p)
       /\ last'.op \in {"OccupiedEntry::insert", "VacantEntry::insert"} =>
             \A p \in IndexPositions, chunk \in IndexChunks :
                EntryInsert(p, chunk) => OthersUnchanged(p)
       /\ last'.op = "OccupiedEntry::remove" =>
             \A p \in IndexPositions : EntryRemove(p) => OthersUnchanged(p)
       /\ last'.op = "or_default" =>
             \A p \in IndexPositions : OrDefault(p) => OthersUnchanged(p)
    ]_vars

\* remove has taken out a chunk that had a cache; the chunk at the other
\* position still has its stone, its viewer and its cache.
C20_Witness ==
    \E q \in IndexPositions :
        /\ last = [op |-> "remove", cached |-> TRUE]
        /\ DOMAIN index.map = {q}
        /\ viewer_count(index.map[q]) = U32(1)
        /\ CacheOf(index, q) # <<>>
        /\ block_state(index.map[q], 3, 4, 5) = "STONE"

====
